---------------------------- MODULE Spec2Model ----------------------------
(***************************************************************************)
(* The text-normalization pipeline of string_object_functional.py:         *)
(* count_whitespace, fix_iz, split_sentences, sentence_case,               *)
(* normalize_case, last_words, make_sentence_from_last_words and their     *)
(* sequencing in process_homework.                                         *)
(*                                                                         *)
(* A text is a sequence of code points.  A code point is written as the    *)
(* one-character string of its ASCII character, or as "U+XXXX" otherwise.  *)
(***************************************************************************)
EXTENDS Integers, Sequences, FiniteSets, TLC

(***************************************************************************)
(* Code points and the character classes the code tests them against.      *)
(***************************************************************************)
AsciiLower ==
    <<"a", "b", "c", "d", "e", "f", "g", "h", "i", "j", "k", "l", "m",
      "n", "o", "p", "q", "r", "s", "t", "u", "v", "w", "x", "y", "z">>

AsciiUpper ==
    <<"A", "B", "C", "D", "E", "F", "G", "H", "I", "J", "K", "L", "M",
      "N", "O", "P", "Q", "R", "S", "T", "U", "V", "W", "X", "Y", "Z">>

Range(s) == { s[k] : k \in DOMAIN s }

Digits == {"0", "1", "2", "3", "4", "5", "6", "7", "8", "9"}

\* The regex class [a-zA-Z] / [A-Za-z].
IsAsciiLetter(c) == c \in Range(AsciiLower) \cup Range(AsciiUpper)

\* Letters outside ASCII: e-acute, E-acute, I with dot above, dotless i.
NonAsciiLetters == {"U+00E9", "U+00C9", "U+0130", "U+0131"}

\* A letter in the sense of str.isalpha().
IsLetter(c) == IsAsciiLetter(c) \/ c \in NonAsciiLetters

\* \w of a str pattern: every alphanumeric code point and the underscore.
\* U+0307 (combining dot above) is a mark, not a word character.
IsWordChar(c) == IsLetter(c) \/ c \in Digits \/ c = "_"

\* str.isspace(), which is also \s of a str pattern.
IsSpace(c) == c \in {" ", "\t", "\n", "\r", "U+00A0"}

\* The class of the lookbehind and the lookahead of fix_iz: U+201C, U+201D
\* and the straight double quote.
IsQuote(c) == c \in {"U+201C", "U+201D", "\""}

\* The class [.!?:] of split_sentences.
IsTerminator(c) == c \in {".", "!", "?", ":"}

IndexIn(s, c) == CHOOSE k \in DOMAIN s : s[k] = c

\* str.lower() of one code point: a sequence, because the lowercase of
\* U+0130 is the two code points i, U+0307.
LowerChar(c) ==
    IF c \in Range(AsciiUpper) THEN << AsciiLower[IndexIn(AsciiUpper, c)] >>
    ELSE IF c = "U+00C9" THEN << "U+00E9" >>
    ELSE IF c = "U+0130" THEN << "i", "U+0307" >>
    ELSE << c >>

\* str.upper() of one code point.
UpperChar(c) ==
    IF c \in Range(AsciiLower) THEN AsciiUpper[IndexIn(AsciiLower, c)]
    ELSE IF c = "U+00E9" THEN "U+00C9"
    ELSE IF c = "U+0131" THEN "I"
    ELSE c

RECURSIVE Flatten(_)
\* the join of parts with the empty separator
Flatten(parts) ==
    IF parts = << >> THEN << >> ELSE Head(parts) \o Flatten(Tail(parts))

\* str.lower() of a string.
Lower(s) == Flatten([k \in DOMAIN s |-> LowerChar(s[k])])

(***************************************************************************)
(* count_whitespace                                                        *)
(***************************************************************************)
RECURSIVE count_whitespace_spaces_only(_)
\* text.count of the ASCII space alone
count_whitespace_spaces_only(text) ==
    IF text = << >> THEN 0
    ELSE (IF Head(text) = " " THEN 1 ELSE 0) + count_whitespace_spaces_only(Tail(text))

RECURSIVE count_whitespace(_)
count_whitespace(text) ==
    IF text = << >> THEN 0
    ELSE (IF IsSpace(Head(text)) THEN 1 ELSE 0) + count_whitespace(Tail(text))

(***************************************************************************)
(* fix_iz: re.sub of the pattern                                           *)
(*   not-after-quote, \b, (?i:iz), \b, not-before-quote                    *)
(* by the replacement is.                                                  *)
(***************************************************************************)
\* (?i:i): under IGNORECASE the letter i of a str pattern also matches
\* U+0130 and U+0131.
MatchesI(c) == c \in {"i", "I", "U+0130", "U+0131"}

\* (?i:z)
MatchesZ(c) == c \in {"z", "Z"}

\* The pattern without its lookahead.
IzNoLookaheadAt(text, p) ==
    /\ p + 1 <= Len(text)
    /\ (p = 1 \/ ~IsQuote(text[p - 1]))
    /\ (p = 1 \/ ~IsWordChar(text[p - 1]))
    /\ MatchesI(text[p])
    /\ MatchesZ(text[p + 1])
    /\ (p + 2 > Len(text) \/ ~IsWordChar(text[p + 2]))

\* Whether the pattern matches the two code points at p, p + 1.
IzMatchAt(text, p) ==
    /\ p + 1 <= Len(text)
    /\ (p = 1 \/ ~IsQuote(text[p - 1]))
    /\ (p = 1 \/ ~IsWordChar(text[p - 1]))
    /\ MatchesI(text[p])
    /\ MatchesZ(text[p + 1])
    /\ (p + 2 > Len(text) \/ ~IsWordChar(text[p + 2]))
    /\ (p + 2 > Len(text) \/ ~IsQuote(text[p + 2]))

RECURSIVE SubFrom(_, _)
\* re.sub: left to right, each match replaced and the scan resumed after it.
SubFrom(text, p) ==
    IF p > Len(text) THEN << >>
    ELSE IF IzMatchAt(text, p) THEN << "i", "s" >> \o SubFrom(text, p + 2)
    ELSE << text[p] >> \o SubFrom(text, p + 1)

RECURSIVE SubFirstFrom(_, _)
SubFirstFrom(text, p) ==
    IF p > Len(text) THEN << >>
    ELSE IF IzMatchAt(text, p)
         THEN << "i", "s" >> \o SubSeq(text, p + 2, Len(text))
         ELSE << text[p] >> \o SubFirstFrom(text, p + 1)

\* re.sub with count=1
fix_iz_first_only(text) == SubFirstFrom(text, 1)

RECURSIVE SubNoLookaheadFrom(_, _)
SubNoLookaheadFrom(text, p) ==
    IF p > Len(text) THEN << >>
    ELSE IF IzNoLookaheadAt(text, p)
         THEN << "i", "s" >> \o SubNoLookaheadFrom(text, p + 2)
         ELSE << text[p] >> \o SubNoLookaheadFrom(text, p + 1)

\* the pattern with its lookahead dropped
fix_iz_no_lookahead(text) == SubNoLookaheadFrom(text, 1)

fix_iz(text) == SubFrom(text, 1)

(***************************************************************************)
(* split_sentences: re.split at a terminator [.!?:] and the whitespace     *)
(* after it, the delimiter kept as a captured group.                       *)
(***************************************************************************)
RECURSIVE SpaceRunEnd(_, _)
\* The last index of the run of whitespace that starts at p (p - 1 if none).
SpaceRunEnd(text, p) ==
    IF p <= Len(text) /\ IsSpace(text[p]) THEN SpaceRunEnd(text, p + 1)
    ELSE p - 1

RECURSIVE SplitFrom(_, _, _)
\* start: where the current chunk began; p: the scan position.
SplitFrom(text, start, p) ==
    IF p > Len(text) THEN << SubSeq(text, start, Len(text)) >>
    ELSE IF IsTerminator(text[p])
         THEN LET e == SpaceRunEnd(text, p + 1)
              IN  << SubSeq(text, start, p - 1), SubSeq(text, p, e) >>
                      \o SplitFrom(text, e + 1, e + 1)
         ELSE SplitFrom(text, start, p + 1)

RECURSIVE SplitNoGroupFrom(_, _, _)
SplitNoGroupFrom(text, start, p) ==
    IF p > Len(text) THEN << SubSeq(text, start, Len(text)) >>
    ELSE IF IsTerminator(text[p])
         THEN LET e == SpaceRunEnd(text, p + 1)
              IN  << SubSeq(text, start, p - 1) >>
                      \o SplitNoGroupFrom(text, e + 1, e + 1)
         ELSE SplitNoGroupFrom(text, start, p + 1)

\* re.split without the capturing group: the delimiters are lost
split_sentences_no_group(text) == SplitNoGroupFrom(text, 1, 1)

split_sentences(text) == SplitFrom(text, 1, 1)

\* enumerate(parts) with i % 2 == 0: parts[0], parts[2], ... are 1-based odd.
IsSegmentIndex(k) == k % 2 = 1

(***************************************************************************)
(* sentence_case                                                           *)
(***************************************************************************)
\* re.search of [a-zA-Z] in lower: the positions the class matches.
AsciiLetterPositions(s) == { k \in DOMAIN s : IsAsciiLetter(s[k]) }

Min(S) == CHOOSE x \in S : \A y \in S : x <= y

RECURSIVE StripLeadingSpace(_)
StripLeadingSpace(s) ==
    IF s # << >> /\ IsSpace(Head(s)) THEN StripLeadingSpace(Tail(s)) ELSE s

\* segment.strip().capitalize()-like: the leading whitespace is lost
sentence_case_stripped(segment) ==
    LET lower == StripLeadingSpace(Lower(segment))
    IN  IF lower = << >> THEN lower
        ELSE << UpperChar(lower[1]) >> \o Tail(lower)

sentence_case(segment) ==
    LET lower == Lower(segment)
        m     == AsciiLetterPositions(lower)
    IN  IF m = {} THEN lower
        ELSE LET i == Min(m)
             IN  SubSeq(lower, 1, i - 1) \o << UpperChar(lower[i]) >>
                     \o SubSeq(lower, i + 1, Len(lower))

(***************************************************************************)
(* normalize_case                                                          *)
(***************************************************************************)
normalize_case(text) ==
    LET parts == split_sentences(text)
    IN  Flatten([k \in DOMAIN parts |->
                    IF IsSegmentIndex(k) THEN sentence_case(parts[k])
                    ELSE parts[k]])

(***************************************************************************)
(* last_words: re.findall of \b [A-Za-z]+ \b on every segment               *)
(***************************************************************************)
RECURSIVE LetterRunEnd(_, _)
\* The last index of the run of [A-Za-z] that starts at p.
LetterRunEnd(s, p) ==
    IF p + 1 <= Len(s) /\ IsAsciiLetter(s[p + 1]) THEN LetterRunEnd(s, p + 1)
    ELSE p

RECURSIVE FindAllFrom(_, _)
\* A match starts at a letter after a word boundary, takes the whole run of
\* letters and needs a word boundary after it; a shorter run never ends at
\* a boundary, and no later start inside the run follows one.
FindAllFrom(s, p) ==
    IF p > Len(s) THEN << >>
    ELSE IF IsAsciiLetter(s[p]) /\ (p = 1 \/ ~IsWordChar(s[p - 1]))
         THEN LET e == LetterRunEnd(s, p)
              IN  IF e = Len(s) \/ ~IsWordChar(s[e + 1])
                  THEN << SubSeq(s, p, e) >> \o FindAllFrom(s, e + 1)
                  ELSE FindAllFrom(s, p + 1)
         ELSE FindAllFrom(s, p + 1)

FindAll(s) == FindAllFrom(s, 1)

RECURSIVE CollectFirst(_, _)
CollectFirst(parts, k) ==
    IF k > Len(parts) THEN << >>
    ELSE LET tokens == IF IsSegmentIndex(k) THEN FindAll(parts[k]) ELSE << >>
         IN  (IF tokens # << >> THEN << tokens[1] >> ELSE << >>)
                 \o CollectFirst(parts, k + 1)

\* words.append(tokens[0]): the first word of each segment
last_words_first_token(text) == CollectFirst(split_sentences(text), 1)

RECURSIVE CollectLast(_, _)
CollectLast(parts, k) ==
    IF k > Len(parts) THEN << >>
    ELSE LET tokens == IF IsSegmentIndex(k) THEN FindAll(parts[k]) ELSE << >>
         IN  (IF tokens # << >> THEN << tokens[Len(tokens)] >> ELSE << >>)
                 \o CollectLast(parts, k + 1)

last_words(text) == CollectLast(split_sentences(text), 1)

(***************************************************************************)
(* make_sentence_from_last_words                                           *)
(***************************************************************************)
RECURSIVE JoinSpace(_)
\* the join of words with one space
JoinSpace(words) ==
    IF words = << >> THEN << >>
    ELSE IF Len(words) = 1 THEN words[1]
    ELSE words[1] \o << " " >> \o JoinSpace(Tail(words))

\* without the guard on no words, as the script String_Object.py has it
make_sentence_unguarded(words) ==
    LET s == JoinSpace(words) \o << "." >>
    IN  << UpperChar(s[1]) >> \o Tail(s)

make_sentence_from_last_words(words) ==
    IF words = << >> THEN << >>
    ELSE LET s == JoinSpace(words) \o << "." >>
         IN  << UpperChar(s[1]) >> \o Tail(s)

(***************************************************************************)
(* Inputs                                                                  *)
(***************************************************************************)
MaxLen == 4

MaxLenFix == 4

\* Code points of the texts fed to the whole pipeline.
Alphabet ==
    {"a", "B", "U+00E9", "U+0130", "1", ".", " ", "U+00A0"}

\* Code points of the texts that exercise fix_iz.
AlphabetFix ==
    {"i", "I", "z", "Z", "U+0131", "a", "_", "\"", "U+201C", "U+201D", " "}

\* Fewer code points, for longer texts with several occurrences of iz.
AlphabetFixLong == {"i", "Z", "a", "\"", " "}

MaxLenFixLong == 6

StringsUpTo(S, n) == UNION { [1..k -> S] : k \in 0..n }

\* tHis iz your homeWork.
ExHomework ==
    <<"t", "H", "i", "s", " ", "i", "z", " ", "y", "o", "u", "r", " ",
      "h", "o", "m", "e", "W", "o", "r", "k", ".">>

\* fix(U+201C)iZ(U+201D) with correct (U+201C)is(U+201D)
ExQuoted ==
    <<"f", "i", "x", "U+201C", "i", "Z", "U+201D", " ", "w", "i", "t", "h",
      " ", "c", "o", "r", "r", "e", "c", "t", " ", "U+201C", "i", "s",
      "U+201D">>

\* Hello world. Bye now.
ExHello ==
    <<"H", "e", "l", "l", "o", " ", "w", "o", "r", "l", "d", ".", " ",
      "B", "y", "e", " ", "n", "o", "w", ".">>

\* iz with a space and then a straight quote on either side
ExSpaced == <<"\"", " ", "i", "z", " ", "\"">>

\* it Iz a mistAKE. (blank line, two spaces) last iz TO
ExMistake ==
    <<"i", "t", " ", "I", "z", " ", "a", " ", "m", "i", "s", "t", "A", "K",
      "E", ".", "\n", "\n", " ", " ", "l", "a", "s", "t", " ", "i", "z",
      " ", "T", "O">>

Examples == {ExHomework, ExQuoted, ExHello, ExSpaced, ExMistake}

(***************************************************************************)
(* process_homework, one action per statement                              *)
(***************************************************************************)
VARIABLES
    pc,                \* the statement process_homework is about to run
    text,              \* the argument
    whitespace_count,
    fixed,
    normalized,
    lw,
    extra,
    final,
    result,            \* the returned tuple
    \* the script String_Object.py, run on the same text as raw
    s_pc,              \* the statement the script is about to run
    original_whitespace_count,
    fixed_iz,
    s_parts,           \* parts
    s_i,               \* the loop index i, 1-based
    cased_parts,
    s_last_words,      \* last_words
    normalized_text,
    extra_sentence,
    final_text,
    \* the dict merges of Collections.py and collections_functional.py
    m_pc,
    dict_list,         \* the argument of both merges
    merged,            \* what merge_with_rules returned
    merged_by_max,     \* what merge_by_max_with_index returned
    \* the menu loop of news_feed.py
    running,           \* main's while loop has not reached its break
    FILE_PATH,         \* Post.FILE_PATH
    files,             \* the content of the file at every path
    last,              \* how the last pass of the loop ended
    published          \* the block the last successful publish wrote

hwVars == << pc, text, whitespace_count, fixed, normalized, lw, extra, final,
             result >>

scriptVars == << s_pc, original_whitespace_count, fixed_iz, s_parts, s_i,
                 cased_parts, s_last_words, normalized_text, extra_sentence,
                 final_text >>

mergeVars == << m_pc, dict_list, merged, merged_by_max >>

feedVars == << running, FILE_PATH, files, last, published >>

vars == << hwVars, scriptVars, mergeVars, feedVars >>

None == << "none" >>

\* The script is not run.
ScriptIdle ==
    /\ s_pc = "off"
    /\ original_whitespace_count = 0
    /\ fixed_iz = None
    /\ s_parts = None
    /\ s_i = 0
    /\ cased_parts = None
    /\ s_last_words = None
    /\ normalized_text = None
    /\ extra_sentence = None
    /\ final_text = None

\* No merge is run.
MergeIdle ==
    /\ m_pc = "off"
    /\ dict_list = << >>
    /\ merged = None
    /\ merged_by_max = None

\* The menu loop is not run.
FeedIdle ==
    /\ running = FALSE
    /\ FILE_PATH = "feed.txt"
    /\ files = << >>
    /\ last = "off"
    /\ published = None

InitWith(inputs) ==
    /\ text \in inputs
    /\ pc = "count"
    /\ whitespace_count = 0
    /\ fixed = None
    /\ normalized = None
    /\ lw = None
    /\ extra = None
    /\ final = None
    /\ result = None
    /\ ScriptIdle
    /\ MergeIdle
    /\ FeedIdle

Init == InitWith(StringsUpTo(Alphabet, MaxLen) \cup Examples)

InitFix == InitWith(StringsUpTo(AlphabetFix, MaxLenFix) \cup Examples)

InitFixLong == InitWith(StringsUpTo(AlphabetFixLong, MaxLenFixLong))

CountWhitespace ==
    /\ pc = "count"
    /\ whitespace_count' = count_whitespace(text)
    /\ pc' = "fix"
    /\ UNCHANGED << text, fixed, normalized, lw, extra, final, result >>
    /\ UNCHANGED << scriptVars, mergeVars, feedVars >>

FixIz ==
    /\ pc = "fix"
    /\ fixed' = fix_iz(text)
    /\ pc' = "normalize"
    /\ UNCHANGED << text, whitespace_count, normalized, lw, extra, final,
                    result >>
    /\ UNCHANGED << scriptVars, mergeVars, feedVars >>

NormalizeRaw ==
    /\ pc = "normalize"
    /\ normalized' = normalize_case(text)
    /\ pc' = "words"
    /\ UNCHANGED << text, whitespace_count, fixed, lw, extra, final, result >>
    /\ UNCHANGED << scriptVars, mergeVars, feedVars >>

NormalizeCase ==
    /\ pc = "normalize"
    /\ normalized' = normalize_case(fixed)
    /\ pc' = "words"
    /\ UNCHANGED << text, whitespace_count, fixed, lw, extra, final, result >>
    /\ UNCHANGED << scriptVars, mergeVars, feedVars >>

LastWords ==
    /\ pc = "words"
    /\ lw' = last_words(normalized)
    /\ pc' = "sentence"
    /\ UNCHANGED << text, whitespace_count, fixed, normalized, extra, final,
                    result >>
    /\ UNCHANGED << scriptVars, mergeVars, feedVars >>

MakeSentence ==
    /\ pc = "sentence"
    /\ extra' = make_sentence_from_last_words(lw)
    /\ pc' = "final"
    /\ UNCHANGED << text, whitespace_count, fixed, normalized, lw, final,
                    result >>
    /\ UNCHANGED << scriptVars, mergeVars, feedVars >>

BuildFinal ==
    /\ pc = "final"
    /\ final' = normalized \o
                  (IF extra # << >> THEN << "\n", "\n" >> \o extra ELSE << >>)
    /\ pc' = "return"
    /\ UNCHANGED << text, whitespace_count, fixed, normalized, lw, extra,
                    result >>
    /\ UNCHANGED << scriptVars, mergeVars, feedVars >>

Return ==
    /\ pc = "return"
    /\ result' = << final, whitespace_count, extra >>
    /\ pc' = "done"
    /\ UNCHANGED << text, whitespace_count, fixed, normalized, lw, extra,
                    final >>
    /\ UNCHANGED << scriptVars, mergeVars, feedVars >>

Next ==
    \/ CountWhitespace
    \/ FixIz
    \/ NormalizeCase
    \/ LastWords
    \/ MakeSentence
    \/ BuildFinal
    \/ Return

Spec == Init /\ [][Next]_vars

SpecFix == InitFix /\ [][Next]_vars

SpecFixLong == InitFixLong /\ [][Next]_vars

\* The statements that have run.
Fixed == pc \notin {"count", "fix"}

Normalized == Fixed /\ pc # "normalize"

Collected == Normalized /\ pc # "words"

Synthesized == Collected /\ pc # "sentence"

Done == pc = "done"

TypeOK ==
    /\ pc \in {"count", "fix", "normalize", "words", "sentence", "final",
               "return", "done"}
    /\ whitespace_count \in 0..Len(text)
    /\ Done => result = << final, whitespace_count, extra >>

(***************************************************************************)
(* Vocabulary of the properties                                            *)
(***************************************************************************)
\* The word iz in one of its four ASCII casings at p, p + 1.
AsciiIzAt(t, p) ==
    /\ p + 1 <= Len(t)
    /\ t[p] \in {"i", "I"}
    /\ t[p + 1] \in {"z", "Z"}

\* The two code points at p, p + 1 are not part of a longer word.
StandaloneAt(t, p) ==
    /\ p = 1 \/ ~IsWordChar(t[p - 1])
    /\ p + 2 > Len(t) \/ ~IsWordChar(t[p + 2])

\* A quotation mark immediately before p or immediately after p + 1.
QuoteAdjacent(t, p) ==
    \/ p > 1 /\ IsQuote(t[p - 1])
    \/ p + 2 <= Len(t) /\ IsQuote(t[p + 2])

\* Nothing but whitespace (or the end of the text) on either side.
SpaceAround(t, p) ==
    /\ p = 1 \/ IsSpace(t[p - 1])
    /\ p + 2 > Len(t) \/ IsSpace(t[p + 2])

\* A quotation mark one whitespace away on some side.
QuoteBeyondSpace(t, p) ==
    \/ p > 2 /\ IsSpace(t[p - 1]) /\ IsQuote(t[p - 2])
    \/ p + 3 <= Len(t) /\ IsSpace(t[p + 2]) /\ IsQuote(t[p + 3])

\* Where the correction is due: standalone iz, any ASCII casing, unquoted.
DueSites(t) ==
    { p \in DOMAIN t :
        AsciiIzAt(t, p) /\ StandaloneAt(t, p) /\ ~QuoteAdjacent(t, p) }

(***************************************************************************)
(* C1                                                                      *)
(***************************************************************************)
\* C1: fix_iz turns every standalone, unquoted iz (iz, Iz, iZ, IZ) into
\* lowercase is, never touches iz inside a longer word, and leaves every
\* other code point of the text as it was.
C1_OnlyIzChanged ==
    Fixed =>
        /\ Len(fixed) = Len(text)
        /\ \A p \in DOMAIN text :
              IF p \in DueSites(text) THEN fixed[p] = "i"
              ELSE IF p - 1 \in DueSites(text) THEN fixed[p] = "s"
              ELSE fixed[p] = text[p]

(***************************************************************************)
(* C2                                                                      *)
(***************************************************************************)
\* C2: an iz (any casing) with a quotation mark immediately before or after
\* it is kept verbatim, casing included; an iz separated from a quotation
\* mark by whitespace is corrected to is.
C2_QuotedKept ==
    Fixed =>
        /\ Len(fixed) = Len(text)
        /\ \A p \in DOMAIN text :
              /\ AsciiIzAt(text, p) /\ QuoteAdjacent(text, p)
                    => fixed[p] = text[p] /\ fixed[p + 1] = text[p + 1]
              /\ AsciiIzAt(text, p) /\ SpaceAround(text, p)
                   /\ QuoteBeyondSpace(text, p)
                    => fixed[p] = "i" /\ fixed[p + 1] = "s"

\* The quoted iZ of the example text came through with its casing.
C2_Witness ==
    /\ Done
    /\ text = ExQuoted
    /\ SubSeq(fixed, 4, 7) = << "U+201C", "i", "Z", "U+201D" >>

(***************************************************************************)
(* C3                                                                      *)
(***************************************************************************)
\* C3: the elements of split_sentences(t), concatenated in order, are t:
\* for the argument, for the corrected text that normalize_case splits and
\* for the normalized text that last_words splits.
C3_Lossless ==
    /\ Flatten(split_sentences(text)) = text
    /\ Fixed => Flatten(split_sentences(fixed)) = fixed
    /\ Normalized => Flatten(split_sentences(normalized)) = normalized

\* A text of three segments, one of its delimiters with trailing whitespace.
C3_Witness ==
    /\ Done
    /\ Len(split_sentences(fixed)) >= 5
    /\ \E k \in DOMAIN split_sentences(fixed) :
          ~IsSegmentIndex(k) /\ Len(split_sentences(fixed)[k]) >= 2

(***************************************************************************)
(* C4                                                                      *)
(***************************************************************************)
IsUpper(c) == c \in Range(AsciiUpper) \cup {"U+00C9", "U+0130"}

LetterPositions(s) == { k \in DOMAIN s : IsLetter(s[k]) }

\* Lowercase everything, then uppercase the first alphabetic character.
FirstLetterCased(segment) ==
    LET lower == Lower(segment)
        m     == LetterPositions(lower)
    IN  IF m = {} THEN lower
        ELSE [lower EXCEPT ![Min(m)] = UpperChar(lower[Min(m)])]

\* C4: sentence_case of a segment is the segment lowercased with its first
\* alphabetic character uppercased in place; the result has at most one
\* uppercase letter, and that is its first letter.
C4_FirstLetterUpper ==
    Normalized =>
        LET parts == split_sentences(fixed)
        IN  \A k \in DOMAIN parts :
               IsSegmentIndex(k) =>
                  LET out == sentence_case(parts[k])
                  IN  /\ out = FirstLetterCased(parts[k])
                      /\ \A j \in DOMAIN out :
                            IsUpper(out[j]) => j = Min(LetterPositions(out))

(***************************************************************************)
(* C5                                                                      *)
(***************************************************************************)
\* The delimiters of a split: its elements that are not segments.
Delimiters(parts) ==
    [k \in 1..(Len(parts) \div 2) |-> parts[2 * k]]

\* Same position, same code point up to case; caseless ones identical.
SameUpToCaseAt(s, t, k) ==
    /\ IsLetter(s[k]) => LowerChar(t[k]) = LowerChar(s[k])
    /\ ~IsLetter(s[k]) => t[k] = s[k]

\* C5 as stated: normalize_case keeps the length of the text, every
\* non-letter at its position and every letter up to case.
C5_SameLength ==
    Normalized =>
        /\ Len(normalized) = Len(fixed)
        /\ \A k \in DOMAIN fixed : SameUpToCaseAt(fixed, normalized, k)

\* C5 amended: normalize_case passes every delimiter through unmodified and
\* changes nothing but letter case: lowercased, the output and the input are
\* the same text, so every caseless code point is kept, in order.  The output
\* is one code point longer for each U+0130 of the input (its lowercase is i
\* followed by U+0307); with none, the length is kept, every non-letter stays
\* at its position and each letter is the same letter up to case.
C5_OnlyCaseChanged ==
    Normalized =>
        /\ Lower(normalized) = Lower(fixed)
        /\ Delimiters(split_sentences(normalized))
              = Delimiters(split_sentences(fixed))
        /\ Len(normalized) = Len(fixed)
              + Cardinality({ k \in DOMAIN fixed : fixed[k] = "U+0130" })
        /\ "U+0130" \notin Range(fixed) =>
              \A k \in DOMAIN fixed : SameUpToCaseAt(fixed, normalized, k)

\* A text with a non-breaking space and a delimiter, its case changed.
C5_Witness ==
    /\ Done
    /\ normalized # fixed
    /\ "U+00A0" \in Range(fixed)
    /\ Len(split_sentences(fixed)) >= 3
    /\ "U+0130" \notin Range(fixed)

(***************************************************************************)
(* C6                                                                      *)
(***************************************************************************)
\* The alphabetic words of a segment: runs of letters with a word boundary
\* on either side, as pairs of first and last index.
WordSpans(s) ==
    { w \in (DOMAIN s) \X (DOMAIN s) :
        /\ w[1] <= w[2]
        /\ \A k \in w[1]..w[2] : IsAsciiLetter(s[k])
        /\ w[1] = 1 \/ ~IsWordChar(s[w[1] - 1])
        /\ w[2] = Len(s) \/ ~IsWordChar(s[w[2] + 1]) }

\* The last word of a segment, as a list of one or no word.
LastWordOf(s) ==
    IF WordSpans(s) = {} THEN << >>
    ELSE LET w == CHOOSE w \in WordSpans(s) :
                      \A v \in WordSpans(s) : v[1] <= w[1]
         IN  << SubSeq(s, w[1], w[2]) >>

\* The last words of the segments of t, in segment order.
LastWordsOf(t) ==
    LET parts == split_sentences(t)
    IN  Flatten([k \in DOMAIN parts |->
                    IF IsSegmentIndex(k) THEN LastWordOf(parts[k])
                    ELSE << >>])

\* The words, single spaces between them, a period, first letter capital.
SentenceOf(words) ==
    LET s == Flatten([k \in DOMAIN words |->
                        IF k = 1 THEN words[k] ELSE << " " >> \o words[k]])
                 \o << "." >>
    IN  [s EXCEPT ![1] = UpperChar(s[1])]

C7_NoWords ==
    /\ Done => /\ result[1] = final /\ final # None
               /\ result[2] \in 0..Len(text)
               /\ result[3] = extra /\ extra # None
    /\ Done /\ lw = << >> => extra = << >> /\ final = normalized
    /\ Done /\ (\A k \in DOMAIN text :
                   IsSpace(text[k]) \/ text[k] \in Digits
                      \/ IsTerminator(text[k]))
          => lw = << >> /\ result = << normalized, whitespace_count, << >> >>
    /\ Done /\ text = << >> => result = << << >>, 0, << >> >>

\* A text of whitespace, digits and punctuation went through.
C7_Witness ==
    /\ Done
    /\ Len(text) >= 3
    /\ lw = << >>
    /\ \E k \in DOMAIN text : IsSpace(text[k])
    /\ \E k \in DOMAIN text : text[k] \in Digits
    /\ final = normalized

(***************************************************************************)
(* C8                                                                      *)
(***************************************************************************)
\* C8: when a last word is collected, the final text is
\* normalize_case(fix_iz(text)), a blank line and the synthetic sentence;
\* the words are collected from the normalized text and the third output is
\* the appended sentence.
C8_FinalText ==
    Done /\ lw # << >> =>
        /\ normalized = normalize_case(fix_iz(text))
        /\ lw = last_words(normalized)
        /\ extra = make_sentence_from_last_words(lw)
        /\ final = normalized \o << "\n", "\n" >> \o extra
        /\ result[1] = final
        /\ result[3] = extra
        /\ extra # << >>

\* A corrected iz opens a segment: correcting after the casing gives another
\* text.
C8_Witness ==
    /\ Done
    /\ lw # << >>
    /\ fixed # text
    /\ normalized # fix_iz(normalize_case(text))

(***************************************************************************)
(* C9                                                                      *)
(***************************************************************************)
\* C9: fix_iz(fix_iz(text)) = fix_iz(text).
C9_Idempotent == Fixed => fix_iz(fixed) = fixed

\* A text with two occurrences, both corrected by the first run.
C9_Witness ==
    /\ Done
    /\ Cardinality({ p \in DOMAIN text : IzMatchAt(text, p) }) >= 2
    /\ \A p \in DOMAIN text : ~IzMatchAt(fixed, p)
    /\ fixed # text

(***************************************************************************)
(* C10                                                                     *)
(***************************************************************************)
\* C10: the whitespace count is the number of positions of the original
\* text that hold a whitespace code point of any kind; it is what
\* process_homework returns, whatever the later steps do to the text.
C10_WhitespaceCount ==
    /\ pc # "count" =>
          whitespace_count
             = Cardinality({ k \in DOMAIN text : IsSpace(text[k]) })
    /\ Done =>
          result[2] = Cardinality({ k \in DOMAIN text : IsSpace(text[k]) })

\* A non-breaking space and a space counted; the final text, with its
\* appended paragraph, holds more whitespace than was counted.
C10_Witness ==
    /\ Done
    /\ "U+00A0" \in Range(text)
    /\ " " \in Range(text)
    /\ whitespace_count >= 2
    /\ extra # << >>
    /\ count_whitespace(final) # whitespace_count

(***************************************************************************)
(* The dict merges: merge_with_rules of Collections.py and                 *)
(* merge_by_max_with_index of collections_functional.py.                   *)
(*                                                                         *)
(* A dict is the sequence of its items << key, value >> in insertion       *)
(* order, the keys distinct; a key is a string, written as the sequence    *)
(* of its characters.                                                      *)
(***************************************************************************)
\* k in d
HasKey(d, k) == \E n \in DOMAIN d : d[n][1] = k

\* d[k]
Get(d, k) == d[CHOOSE n \in DOMAIN d : d[n][1] = k][2]

\* d.get(k, default)
GetOr(d, k, default) == IF HasKey(d, k) THEN Get(d, k) ELSE default

\* d[k] = v: a new key goes last, a known key keeps its place.
Put(d, k, v) ==
    IF HasKey(d, k)
    THEN [n \in DOMAIN d |-> IF d[n][1] = k THEN << k, v >> ELSE d[n]]
    ELSE Append(d, << k, v >>)

DigitChars == <<"0", "1", "2", "3", "4", "5", "6", "7", "8", "9">>

RECURSIVE IntToStr(_)
\* The decimal digits an f-string writes for a non-negative int.
IntToStr(n) ==
    IF n < 10 THEN << DigitChars[n + 1] >>
    ELSE IntToStr(n \div 10) \o << DigitChars[(n % 10) + 1] >>

\* f"{k}_{idx}"
Renamed(k, idx) == k \o << "_" >> \o IntToStr(idx)

RECURSIVE ItemsFrom(_, _)
\* The items of all dicts in the order the nested loops visit them, each
\* with the 1-based index of its dict: enumerate(dicts, start=1).
ItemsFrom(dicts, idx) ==
    IF idx > Len(dicts) THEN << >>
    ELSE [n \in DOMAIN dicts[idx] |->
             << dicts[idx][n][1], dicts[idx][n][2], idx >>]
           \o ItemsFrom(dicts, idx + 1)

RECURSIVE CountKeys(_, _, _)
\* counts[k] = counts.get(k, 0) + 1 over the items from n on.
CountKeys(items, n, counts) ==
    IF n > Len(items) THEN counts
    ELSE CountKeys(items, n + 1,
                   Put(counts, items[n][1], GetOr(counts, items[n][1], 0) + 1))

RECURSIVE BestOfLast(_, _, _)
\* with v >= best[k][0]: on a tie the later dict wins
BestOfLast(items, n, best) ==
    IF n > Len(items) THEN best
    ELSE LET k == items[n][1]
             v == items[n][2]
         IN  BestOfLast(items, n + 1,
                    IF ~HasKey(best, k) \/ v >= Get(best, k)[1]
                    THEN Put(best, k, << v, items[n][3] >>)
                    ELSE best)

RECURSIVE BestOf(_, _, _)
\* if (k not in best) or (v > best[k][0]): best[k] = (v, idx)
BestOf(items, n, best) ==
    IF n > Len(items) THEN best
    ELSE LET k == items[n][1]
             v == items[n][2]
         IN  BestOf(items, n + 1,
                    IF ~HasKey(best, k) \/ v > Get(best, k)[1]
                    THEN Put(best, k, << v, items[n][3] >>)
                    ELSE best)

RECURSIVE BuildMerged(_, _, _, _)
\* The final loop over best.items(): a key seen once keeps its name, any
\* other is renamed with the index of its maximum.
BuildMerged(best, counts, n, out) ==
    IF n > Len(best) THEN out
    ELSE LET k     == best[n][1]
             max_v == best[n][2][1]
             idx   == best[n][2][2]
         IN  BuildMerged(best, counts, n + 1,
                 IF Get(counts, k) = 1 THEN Put(out, k, max_v)
                 ELSE Put(out, Renamed(k, idx), max_v))

\* with >= for >, the tie goes to the last dict
merge_with_rules_last_wins(dicts) ==
    LET items == ItemsFrom(dicts, 1)
    IN  BuildMerged(BestOfLast(items, 1, << >>), CountKeys(items, 1, << >>),
                    1, << >>)

\* One pass fills best and counts, a second builds merged.
merge_with_rules(dicts) ==
    LET items == ItemsFrom(dicts, 1)
    IN  BuildMerged(BestOf(items, 1, << >>), CountKeys(items, 1, << >>),
                    1, << >>)

\* One pass fills winners, a second key_counts, a third builds result; the
\* passes compute what those of merge_with_rules do.
merge_by_max_with_index(dicts) ==
    LET items      == ItemsFrom(dicts, 1)
        winners    == BestOf(items, 1, << >>)
        key_counts == CountKeys(items, 1, << >>)
    IN  BuildMerged(winners, key_counts, 1, << >>)

\* Inputs: what generate_list_of_dicts can return, cut down to two letters,
\* three of the values 0..100 and few dicts.
MaxDicts == 3

LetterKeys == { <<"a">>, <<"b">> }

Values == {0, 50, 100}

\* The dicts of one letter key, and those of both with a inserted first.
SmallDicts ==
    { << << k, v >> >> : k \in LetterKeys, v \in Values }
      \cup { << << <<"a">>, v1 >>, << <<"b">>, v2 >> >> :
                v1 \in Values, v2 \in Values }

InitMerge ==
    /\ dict_list \in UNION { [1..n -> SmallDicts] : n \in 0..MaxDicts }
    /\ m_pc = "rules"
    /\ merged = None
    /\ merged_by_max = None
    /\ text = << >>
    /\ pc = "off"
    /\ whitespace_count = 0
    /\ fixed = None
    /\ normalized = None
    /\ lw = None
    /\ extra = None
    /\ final = None
    /\ result = None
    /\ ScriptIdle
    /\ FeedIdle

MergeWithRules ==
    /\ m_pc = "rules"
    /\ merged' = merge_with_rules(dict_list)
    /\ m_pc' = "by_max"
    /\ UNCHANGED << dict_list, merged_by_max >>
    /\ UNCHANGED << hwVars, scriptVars, feedVars >>

MergeByMaxWithIndex ==
    /\ m_pc = "by_max"
    /\ merged_by_max' = merge_by_max_with_index(dict_list)
    /\ m_pc' = "done"
    /\ UNCHANGED << dict_list, merged >>
    /\ UNCHANGED << hwVars, scriptVars, feedVars >>

NextMerge ==
    \/ MergeWithRules
    \/ MergeByMaxWithIndex

SpecMerge == InitMerge /\ [][NextMerge]_vars

(***************************************************************************)
(* C11                                                                     *)
(***************************************************************************)
\* The keys of the input, and where and with what value each occurs.
InputKeys ==
    { k \in LetterKeys : \E i \in DOMAIN dict_list : HasKey(dict_list[i], k) }

Holders(k) == { i \in DOMAIN dict_list : HasKey(dict_list[i], k) }

MaxValue(k) ==
    CHOOSE v \in Values :
        /\ \E i \in Holders(k) : Get(dict_list[i], k) = v
        /\ \A i \in Holders(k) : Get(dict_list[i], k) <= v

\* The earliest dict that holds the maximum.
EarliestMax(k) ==
    Min({ i \in Holders(k) : Get(dict_list[i], k) = MaxValue(k) })

\* The entry the rules give a key.
EntryOf(k) ==
    IF Cardinality(Holders(k)) = 1 THEN << k, MaxValue(k) >>
    ELSE << Renamed(k, EarliestMax(k)), MaxValue(k) >>

MergedAsRuled(out) ==
    /\ Len(out) = Cardinality(InputKeys)
    /\ Range(out) = { EntryOf(k) : k \in InputKeys }

DashCount == 40

\* "-" * 40
DashLine == [k \in 1..DashCount |-> "-"]

\* What the user may type at a text prompt, and str.strip() of it.
TextInputs == {" hello "}

Strip(str) == IF str = " hello " THEN "hello"
              ELSE IF str = " kaunas " THEN "kaunas"
              ELSE str

\* str.title()
Title(str) == IF str = "hello" THEN "Hello"
              ELSE IF str = "kaunas" THEN "Kaunas"
              ELSE str

LocationInputs == {" kaunas ", ""}

\* The dates typed, as days from today: yesterday, tomorrow, in 8 days.
DateInputs == {-1, 1, 8}

\* date.isoformat(), today being 2026-11-06.
IsoFormat(d) == IF d = -1 THEN "2026-11-05"
                ELSE IF d = 1 THEN "2026-11-07"
                ELSE IF d = 8 THEN "2026-11-14"
                ELSE "2026-11-06"

\* Post.now_str(): the minute of the call.
NowStr == "2026-11-06 00:27"

\* plural(n, 'day', 'days')
plural(n) == IntToStr(n) \o << " ", IF n = 1 THEN "day" ELSE "days" >>

\* News.from_input, News.__init__ and News.formatted_body
NewsBody(text_in, city_in) ==
    << "News ----------------------------", "\n",
       Strip(Strip(text_in)), "\n",
       "City: ", Title(Strip(Strip(city_in))), " | Published: ", NowStr >>

\* PrivateAd.days_left
days_left(expiration) == IF expiration > 0 THEN expiration ELSE 0

\* PrivateAd.from_input, PrivateAd.__init__ and PrivateAd.formatted_body
PrivateAdBody(text_in, expiration) ==
    << "Private Ad ----------------------", "\n",
       Strip(Strip(text_in)), "\n",
       "Actual until: ", IsoFormat(expiration), " | " >>
      \o (IF days_left(expiration) = 0 THEN << "EXPIRED" >>
          ELSE plural(days_left(expiration)) \o << " left" >>)

\* Event._tag
EventTag(delta) == IF delta < 0 THEN "PAST"
                   ELSE IF delta <= 7 THEN "UPCOMING"
                   ELSE "PLANNED"

\* Event.from_input, Event.__init__ and Event.formatted_body
EventBody(title_in, event_date, loc_in) ==
    LET location == IF Title(Strip(Strip(loc_in))) = "" THEN "N/A"
                    ELSE Title(Strip(Strip(loc_in)))
        when     == IF event_date >= 0
                    THEN << "in " >> \o plural(event_date)
                    ELSE plural(0 - event_date) \o << " ago" >>
    IN  << "Event ---------------------------", "\n",
           Title(Strip(Strip(title_in))), "\n",
           "Date: ", IsoFormat(event_date), " (" >> \o when
          \o << ") | ", "Tag: ", EventTag(event_date), " | ",
                "Location: ", location >>

RECURSIVE RStrip(_)
\* str.rstrip(): trailing whitespace and empty tokens go.
RStrip(body) ==
    IF body # << >> /\ body[Len(body)] \in {"", " ", "\n"}
    THEN RStrip(SubSeq(body, 1, Len(body) - 1))
    ELSE body

\* str(self).rstrip() + "\n" + "-" * 40 + "\n"
Block(body) == RStrip(body) \o << "\n" >> \o DashLine \o << "\n" >>

\* open("w") and write: what was in the file is lost
WriteTruncating(content, block) == block

\* open("a") and write: the block goes after what the file holds.
Write(content, block) == content \o block

\* The paths typed at option 4, and Path() of them.
PathInputs == {"a.txt", "./a.txt", "feed.txt", ""}

PathOf(str) == IF str = "" THEN "."
               ELSE IF str = "./a.txt" THEN "a.txt"
               ELSE str

\* The paths that name a file; "." is the working directory.
FilePaths == {"feed.txt", "a.txt"}

MaxPosts == 2

\* The blocks a file holds, by its dash lines.
BlocksIn(content) ==
    Cardinality({ k \in DOMAIN content : content[k] = "-" }) \div DashCount

PostsMade == BlocksIn(files["feed.txt"]) + BlocksIn(files["a.txt"])

\* What a file may hold from an earlier run.
OldContent == { << >>, << "old record", "\n" >> }

InitFeed ==
    /\ running = TRUE
    /\ FILE_PATH = "feed.txt"
    /\ \E c \in OldContent : files = [p \in FilePaths |-> c]
    /\ last = "start"
    /\ published = None
    /\ text = << >>
    /\ pc = "off"
    /\ whitespace_count = 0
    /\ fixed = None
    /\ normalized = None
    /\ lw = None
    /\ extra = None
    /\ final = None
    /\ result = None
    /\ ScriptIdle
    /\ MergeIdle

\* item.publish() inside main's try: the open fails on a directory and the
\* error is caught; otherwise the block is appended.
PublishBody(body) ==
    /\ IF FILE_PATH \in FilePaths
       THEN /\ files' = [files EXCEPT
                           ![FILE_PATH] = Write(@, Block(body))]
            /\ published' = Block(body)
            /\ last' = "published"
       ELSE /\ last' = "error"
            /\ UNCHANGED << files, published >>
    /\ UNCHANGED << running, FILE_PATH >>
    /\ UNCHANGED << hwVars, scriptVars, mergeVars >>

\* choice 1
PublishNews ==
    /\ running
    /\ PostsMade < MaxPosts
    /\ \E text_in \in TextInputs, city_in \in LocationInputs :
           PublishBody(NewsBody(text_in, city_in))

\* choice 2; a date in a wrong format is asked for again
PublishPrivateAd ==
    /\ running
    /\ PostsMade < MaxPosts
    /\ \E text_in \in TextInputs, expiration \in DateInputs :
           PublishBody(PrivateAdBody(text_in, expiration))

\* choice 3
PublishEvent ==
    /\ running
    /\ PostsMade < MaxPosts
    /\ \E title_in \in TextInputs, event_date \in DateInputs,
          loc_in \in LocationInputs :
           PublishBody(EventBody(title_in, event_date, loc_in))

\* choice 1, 2 or 3 and Ctrl-C at one of the prompts of from_input
Cancelled ==
    /\ running
    /\ last' = "cancelled"
    /\ UNCHANGED << running, FILE_PATH, files, published >>
    /\ UNCHANGED << hwVars, scriptVars, mergeVars >>

\* choice 4
SetOutput ==
    /\ running
    /\ \E new_path \in PathInputs : FILE_PATH' = PathOf(Strip(new_path))
    /\ last' = "set_output"
    /\ UNCHANGED << running, files, published >>
    /\ UNCHANGED << hwVars, scriptVars, mergeVars >>

\* any other choice
UnknownOption ==
    /\ running
    /\ last' = "unknown"
    /\ UNCHANGED << running, FILE_PATH, files, published >>
    /\ UNCHANGED << hwVars, scriptVars, mergeVars >>

\* choice 0
Exit ==
    /\ running
    /\ running' = FALSE
    /\ last' = "exit"
    /\ UNCHANGED << FILE_PATH, files, published >>
    /\ UNCHANGED << hwVars, scriptVars, mergeVars >>

NextFeed ==
    \/ PublishNews
    \/ PublishPrivateAd
    \/ PublishEvent
    \/ Cancelled
    \/ SetOutput
    \/ UnknownOption
    \/ Exit

SpecFeed == InitFeed /\ [][NextFeed]_vars

(***************************************************************************)
(* C12                                                                     *)
(***************************************************************************)
IsPrefix(s, t) == Len(s) <= Len(t) /\ SubSeq(t, 1, Len(s)) = s

\* Every formatted body a record can have.
Bodies ==
    { NewsBody(t, c) : t \in TextInputs, c \in LocationInputs }
      \cup { PrivateAdBody(t, d) : t \in TextInputs, d \in DateInputs }
      \cup { EventBody(t, d, l) :
                t \in TextInputs, d \in DateInputs, l \in LocationInputs }

\* A formatted body, a line break, forty dashes, a line break.
IsRecordBlock(b) ==
    /\ Len(b) >= DashCount + 2
    /\ SubSeq(b, 1, Len(b) - DashCount - 2) \in Bodies
    /\ b[Len(b) - DashCount - 1] = "\n"
    /\ \A k \in (Len(b) - DashCount)..(Len(b) - 1) : b[k] = "-"
    /\ b[Len(b)] = "\n"

\* C12: a pass of the menu loop that publishes appends one record block to
\* the end of the file at the output path then in effect and to no other
\* file; every other pass (option 4, an unknown option, exit, a cancelled
\* or failed publish) leaves every file as it was; no pass changes or
\* removes what a file already held.
C12_AppendOnly ==
    [][ /\ \A p \in FilePaths : IsPrefix(files[p], files'[p])
        /\ last' = "published" =>
              /\ FILE_PATH \in FilePaths
              /\ IsRecordBlock(published')
              /\ files'[FILE_PATH] = files[FILE_PATH] \o published'
              /\ \A q \in FilePaths \ {FILE_PATH} : files'[q] = files[q]
        /\ last' # "published" => files' = files
      ]_vars

\* A record went to feed.txt after its old content, option 4 was taken and
\* a record has just gone to a.txt.
C12_Witness ==
    /\ last = "published"
    /\ FILE_PATH = "a.txt"
    /\ IsPrefix(<< "old record", "\n" >>, files["feed.txt"])
    /\ BlocksIn(files["feed.txt"]) = 1
    /\ BlocksIn(files["a.txt"]) = 1
    /\ files["a.txt"] = << "old record", "\n" >> \o published

(***************************************************************************)
(* The script String_Object.py, one action per statement and one per pass  *)
(* of its loop, run on the text process_homework was given, once           *)
(* process_homework has returned.                                          *)
(***************************************************************************)
MaxLenScript == 4

AlphabetScript == {"i", "z", "B", "U+0130", "1", ".", " "}

InitScript ==
    /\ text \in StringsUpTo(AlphabetScript, MaxLenScript) \cup Examples
    /\ pc = "count"
    /\ whitespace_count = 0
    /\ fixed = None
    /\ normalized = None
    /\ lw = None
    /\ extra = None
    /\ final = None
    /\ result = None
    /\ s_pc = "count"
    /\ original_whitespace_count = 0
    /\ fixed_iz = None
    /\ s_parts = None
    /\ s_i = 0
    /\ cased_parts = None
    /\ s_last_words = None
    /\ normalized_text = None
    /\ extra_sentence = None
    /\ final_text = None
    /\ MergeIdle
    /\ FeedIdle

\* original_whitespace_count = sum(1 for ch in raw if ch.isspace())
ScriptCount ==
    /\ pc = "done"
    /\ s_pc = "count"
    /\ original_whitespace_count' = count_whitespace(text)
    /\ s_pc' = "fix"
    /\ UNCHANGED << fixed_iz, s_parts, s_i, cased_parts, s_last_words,
                    normalized_text, extra_sentence, final_text >>
    /\ UNCHANGED << hwVars, mergeVars, feedVars >>

\* fixed_iz = re.sub(...)
ScriptFixIz ==
    /\ s_pc = "fix"
    /\ fixed_iz' = fix_iz(text)
    /\ s_pc' = "split"
    /\ UNCHANGED << original_whitespace_count, s_parts, s_i, cased_parts,
                    s_last_words, normalized_text, extra_sentence,
                    final_text >>
    /\ UNCHANGED << hwVars, mergeVars, feedVars >>

\* parts = re.split(...); cased_parts = []; last_words = []
ScriptSplit ==
    /\ s_pc = "split"
    /\ s_parts' = split_sentences(fixed_iz)
    /\ cased_parts' = << >>
    /\ s_last_words' = << >>
    /\ s_i' = 1
    /\ s_pc' = "loop"
    /\ UNCHANGED << original_whitespace_count, fixed_iz, normalized_text,
                    extra_sentence, final_text >>
    /\ UNCHANGED << hwVars, mergeVars, feedVars >>

\* words = re.findall(..., p): the words of the part as it was split
ScriptLoopUncased ==
    /\ s_pc = "loop"
    /\ s_i <= Len(s_parts)
    /\ LET p     == s_parts[s_i]
           words == FindAll(p)
       IN  IF IsSegmentIndex(s_i)
           THEN /\ cased_parts' = Append(cased_parts, sentence_case(p))
                /\ s_last_words' =
                      IF words # << >>
                      THEN Append(s_last_words, words[Len(words)])
                      ELSE s_last_words
           ELSE /\ cased_parts' = Append(cased_parts, p)
                /\ UNCHANGED s_last_words
    /\ s_i' = s_i + 1
    /\ UNCHANGED << s_pc, original_whitespace_count, fixed_iz, s_parts,
                    normalized_text, extra_sentence, final_text >>
    /\ UNCHANGED << hwVars, mergeVars, feedVars >>

\* One pass of for i, p in enumerate(parts); s_i counts from 1, so the
\* text chunks are the parts at odd s_i.
ScriptLoop ==
    /\ s_pc = "loop"
    /\ s_i <= Len(s_parts)
    /\ LET p     == s_parts[s_i]
           seg   == sentence_case(p)
           words == FindAll(seg)
       IN  IF IsSegmentIndex(s_i)
           THEN /\ cased_parts' = Append(cased_parts, seg)
                /\ s_last_words' =
                      IF words # << >>
                      THEN Append(s_last_words, words[Len(words)])
                      ELSE s_last_words
           ELSE /\ cased_parts' = Append(cased_parts, p)
                /\ UNCHANGED s_last_words
    /\ s_i' = s_i + 1
    /\ UNCHANGED << s_pc, original_whitespace_count, fixed_iz, s_parts,
                    normalized_text, extra_sentence, final_text >>
    /\ UNCHANGED << hwVars, mergeVars, feedVars >>

\* normalized_text = ''.join(cased_parts), the loop being over
ScriptJoin ==
    /\ s_pc = "loop"
    /\ s_i > Len(s_parts)
    /\ normalized_text' = Flatten(cased_parts)
    /\ s_pc' = "extra"
    /\ UNCHANGED << original_whitespace_count, fixed_iz, s_parts, s_i,
                    cased_parts, s_last_words, extra_sentence, final_text >>
    /\ UNCHANGED << hwVars, mergeVars, feedVars >>

\* extra_sentence = ' '.join(last_words) + '.', then its first character
\* in upper case; with no words it is the full stop alone.
ScriptExtra ==
    /\ s_pc = "extra"
    /\ LET joined == JoinSpace(s_last_words) \o << "." >>
       IN  extra_sentence' = << UpperChar(joined[1]) >> \o Tail(joined)
    /\ s_pc' = "final"
    /\ UNCHANGED << original_whitespace_count, fixed_iz, s_parts, s_i,
                    cased_parts, s_last_words, normalized_text, final_text >>
    /\ UNCHANGED << hwVars, mergeVars, feedVars >>

\* final_text = normalized_text + "\n\n" + extra_sentence
ScriptFinal ==
    /\ s_pc = "final"
    /\ final_text' = normalized_text \o << "\n", "\n" >> \o extra_sentence
    /\ s_pc' = "done"
    /\ UNCHANGED << original_whitespace_count, fixed_iz, s_parts, s_i,
                    cased_parts, s_last_words, normalized_text,
                    extra_sentence >>
    /\ UNCHANGED << hwVars, mergeVars, feedVars >>

NextScript ==
    \/ CountWhitespace
    \/ FixIz
    \/ NormalizeCase
    \/ LastWords
    \/ MakeSentence
    \/ BuildFinal
    \/ Return
    \/ ScriptCount
    \/ ScriptFixIz
    \/ ScriptSplit
    \/ ScriptLoop
    \/ ScriptJoin
    \/ ScriptExtra
    \/ ScriptFinal

SpecScript == InitScript /\ [][NextScript]_vars

(***************************************************************************)
(* C13                                                                     *)
(***************************************************************************)
ScriptDone == s_pc = "done"

\* C13: when process_homework and the script have both run on a text from
\* which a last word is collected, the final text and the whitespace count
\* process_homework returns are the script's final_text and
\* original_whitespace_count, the normalized text splits again into the
\* parts the script built in its one pass, and the words collected from the
\* second split are the words the script collected part by part.
C13_SameAsScript ==
    (Done /\ ScriptDone /\ (lw # << >> \/ s_last_words # << >>)) =>
        /\ result[1] = final_text
        /\ result[2] = original_whitespace_count
        /\ split_sentences(normalized) = cased_parts
        /\ lw = s_last_words

\* Both have run on a text of two sentences with words of both cases, one
\* rewritten by fix_iz, and a last word was collected from each sentence.
C13_Witness ==
    /\ Done
    /\ ScriptDone
    /\ Len(s_last_words) = 2
    /\ lw = s_last_words
    /\ fixed_iz # text
    /\ normalized # fixed
    /\ \E k \in DOMAIN text : text[k] \in Range(AsciiUpper)
    /\ final_text = result[1]
=============================================================================
